---- MODULE Spec2Model ----
(***************************************************************************)
(* Squawk-a-Thon: the retrieval-and-fallback advisory pipeline.            *)
(*                                                                         *)
(* Two programs are modelled, each serving requests one after the other:   *)
(*   - src/app.py   : the Streamlit page; the button handler runs          *)
(*                    analyze_symptoms_with_ai, analyze_media_with_ai and  *)
(*                    builds the on-screen output and report_content;      *)
(*   - src/brain.py : crew_ai_response, AvianDiagnosticCrew and            *)
(*                    AvianRAGSystem.                                      *)
(*                                                                         *)
(* A text is a sequence of tokens.  A token is a record                    *)
(*   [tag, str, chars, num]: tag names the part of the template the token  *)
(* stands for, str holds a literal or an enumerated string, chars holds a  *)
(* string whose characters matter (the query, keywords), num a number.    *)
(* Two texts are byte-identical iff the token sequences are equal.         *)
(***************************************************************************)
EXTENDS Integers, Sequences, FiniteSets, TLC

(***************************************************************************)
(* Strings whose characters matter: keywords and queries.                  *)
(***************************************************************************)
K_plucking == <<"p","l","u","c","k","i","n","g">>
K_loss == <<"l","o","s","s">>
K_sneezing == <<"s","n","e","e","z","i","n","g">>
K_wheezing == <<"w","h","e","e","z","i","n","g">>
K_diarrhea == <<"d","i","a","r","r","h","e","a">>
K_vomiting == <<"v","o","m","i","t","i","n","g">>
K_seizures == <<"s","e","i","z","u","r","e","s">>
K_head_tilt == <<"h","e","a","d","_","t","i","l","t">>
K_pluck == <<"p","l","u","c","k">>
K_feather == <<"f","e","a","t","h","e","r">>
K_sneeze == <<"s","n","e","e","z","e">>
K_cough == <<"c","o","u","g","h">>
K_vomit == <<"v","o","m","i","t">>
K_letharg == <<"l","e","t","h","a","r","g">>
K_sleep == <<"s","l","e","e","p">>
K_eat == <<"e","a","t">>
K_drink == <<"d","r","i","n","k">>
K_breath == <<"b","r","e","a","t","h">>
K_wheeze == <<"w","h","e","e","z","e">>
K_loose == <<"l","o","o","s","e">>
K_tired == <<"t","i","r","e","d">>
K_not_eat == <<"n","o","t"," ","e","a","t">>
K_appetite == <<"a","p","p","e","t","i","t","e">>
K_emergency == <<"e","m","e","r","g","e","n","c","y">>
K_critical == <<"c","r","i","t","i","c","a","l">>
K_urgent == <<"u","r","g","e","n","t">>
K_food == <<"f","o","o","d">>

QSneezing == <<"s","n","e","e","z","i","n","g"," ","a","n","d"," ","n","a","s","a","l"," ","d","i","s","c","h","a","r","g","e"," ","f","o","r"," ","2"," ","d","a","y","s">>
QFeather == <<"F","e","a","t","h","e","r"," ","p","l","u","c","k","i","n","g",","," ","U","R","G","E","N","T"," ","h","e","l","p">>
QShort == <<" "," ","c","o","u","g","h"," "," ">>
QMulti == <<"f","e","a","t","h","e","r"," ","l","o","s","s"," ","a","n","d"," ","s","n","e","e","z","i","n","g">>

\* The queries a user submits.  QShort has fewer than 10 characters once
\* stripped; the others are valid for both programs.  QMulti names two
\* symptoms of the knowledge table.
Queries == {QSneezing, QFeather, QShort, QMulti}

Breeds == {"Sun Conure", "Cockatiel"}

Severities == {"Mild", "Moderate", "Severe", "Critical"}

\* The uploaded file, by its extension as typed (None: nothing uploaded).
MediaFiles == {"None", ".JPG", ".mp4", ".wav"}

\* The file the user hands to the uploader, by its extension as typed
PickedFiles == MediaFiles \cup {".avi", ".m4a"}

\* The type list of st.file_uploader
UploaderTypes == {".jpg", ".jpeg", ".png", ".mp4", ".mov", ".mp3", ".wav"}

(***************************************************************************)
(* str.lower(), str.strip(), the `in` operator and slicing.                *)
(***************************************************************************)
UpperLetters == <<"A","B","C","D","E","F","G","H","I","J","K","L","M","N","O","P","Q","R","S","T","U","V","W","X","Y","Z">>

LowerLetters == <<"a","b","c","d","e","f","g","h","i","j","k","l","m","n","o","p","q","r","s","t","u","v","w","x","y","z">>

LowerChar(c) ==
    IF \E i \in 1..Len(UpperLetters) : UpperLetters[i] = c
    THEN LowerLetters[CHOOSE i \in 1..Len(UpperLetters) : UpperLetters[i] = c]
    ELSE c

Lower(s) == [i \in 1..Len(s) |-> LowerChar(s[i])]

\* sub in s
Contains(sub, s) ==
    \E i \in 0..(Len(s) - Len(sub)) : SubSeq(s, i + 1, i + Len(sub)) = sub

\* s[:n]
Take(s, n) == SubSeq(s, 1, IF Len(s) < n THEN Len(s) ELSE n)

RECURSIVE LStrip(_)
LStrip(s) == IF s # <<>> /\ Head(s) = " " THEN LStrip(Tail(s)) ELSE s

RECURSIVE RStrip(_)
RStrip(s) ==
    IF s # <<>> /\ s[Len(s)] = " " THEN RStrip(SubSeq(s, 1, Len(s) - 1)) ELSE s

Strip(s) == RStrip(LStrip(s))

K_head == <<"h","e","a","d">>

K_tilt == <<"t","i","l","t">>

K_head_tilt_spaced == <<"h","e","a","d"," ","t","i","l","t">>

\* Every word the code looks for in a query
Keywords ==
    {K_plucking, K_loss, K_sneezing, K_wheezing, K_diarrhea, K_vomiting,
     K_seizures, K_head_tilt, K_head, K_tilt, K_head_tilt_spaced, K_pluck,
     K_feather, K_sneeze, K_cough, K_vomit, K_letharg, K_sleep, K_eat,
     K_drink, K_breath, K_wheeze, K_loose, K_tired, K_not_eat, K_appetite,
     K_emergency, K_critical, K_urgent, K_food}

\* For each query of the model, the words that are in query.lower(): the
\* substring tests below, made once per query
KeywordsIn == [q \in Queries |-> {k \in Keywords : Contains(k, Lower(q))}]

\* word in query.lower()
InLowered(word, q) ==
    IF q \in DOMAIN KeywordsIn /\ word \in Keywords
    THEN word \in KeywordsIn[q]
    ELSE Contains(word, Lower(q))

\* severity.lower() on the enumerated severity labels
SeverityLower(sev) ==
    CASE sev = "Mild" -> "mild"
      [] sev = "Moderate" -> "moderate"
      [] sev = "Severe" -> "severe"
      [] sev = "Critical" -> "critical"
      [] OTHER -> sev

\* os.path.splitext(name)[1].lower() on the uploaded file's extension
ExtLower(ext) ==
    CASE ext = ".JPG" -> ".jpg"
      [] OTHER -> ext

(***************************************************************************)
(* Tokens.                                                                 *)
(***************************************************************************)
Tok(tag, str) == [tag |-> tag, str |-> str, chars |-> <<>>, num |-> 0]

CTok(tag, chars) == [tag |-> tag, str |-> "", chars |-> chars, num |-> 0]

NTok(tag, num) == [tag |-> tag, str |-> "", chars |-> <<>>, num |-> num]

\* None and the empty string: both falsy where the code tests a text
NoneText == <<>>

HasTag(text, tag) == \E i \in 1..Len(text) : text[i].tag = tag

\* The texts of a list of strings, one token each
CTokens(tag, ss) == [i \in 1..Len(ss) |-> CTok(tag, ss[i])]

Tokens(tag, ss) == [i \in 1..Len(ss) |-> Tok(tag, ss[i])]

(***************************************************************************)
(* src/app.py: the knowledge table and the pure text functions.            *)
(***************************************************************************)
\* The symptom keys of AVIAN_MEDICAL_KNOWLEDGE in iteration order; parts is
\* symptom.split('_'), spaced is symptom.replace('_', ' ').
AVIAN_MEDICAL_KNOWLEDGE ==
    << [name |-> K_plucking, parts |-> <<K_plucking>>, spaced |-> K_plucking],
       [name |-> K_loss, parts |-> <<K_loss>>, spaced |-> K_loss],
       [name |-> K_sneezing, parts |-> <<K_sneezing>>, spaced |-> K_sneezing],
       [name |-> K_wheezing, parts |-> <<K_wheezing>>, spaced |-> K_wheezing],
       [name |-> K_diarrhea, parts |-> <<K_diarrhea>>, spaced |-> K_diarrhea],
       [name |-> K_vomiting, parts |-> <<K_vomiting>>, spaced |-> K_vomiting],
       [name |-> K_seizures, parts |-> <<K_seizures>>, spaced |-> K_seizures],
       [name |-> K_head_tilt,
        parts |-> << K_head, K_tilt >>,
        spaced |-> K_head_tilt_spaced] >>

\* extract_relevant_knowledge: the matched symptom keys, in table order
extract_relevant_knowledge(q) ==
    LET Match(e) == \/ InLowered(e.name, q)
                    \/ \E j \in 1..Len(e.parts) : InLowered(e.parts[j], q)
        matched == SelectSeq(AVIAN_MEDICAL_KNOWLEDGE, Match)
    IN [i \in 1..Len(matched) |-> matched[i].name]

symptom_keywords ==
    <<K_pluck, K_feather, K_sneeze, K_cough, K_diarrhea, K_vomit, K_letharg,
      K_sleep, K_eat, K_drink, K_breath, K_wheeze>>

\* create_diagnostic_prompt at clock time now
create_diagnostic_prompt(b, q, sev, ctx, now) ==
    LET hits == SelectSeq(AVIAN_MEDICAL_KNOWLEDGE,
                          LAMBDA e : InLowered(e.spaced, q))
        named == [i \in 1..Len(hits) |-> hits[i].spaced]
        symptoms == IF named # <<>> THEN named
                    ELSE SelectSeq(symptom_keywords,
                                   LAMBDA k : InLowered(k, q))
    IN << Tok("heading", "PATIENT CONSULTATION REQUEST"),
          Tok("breed", b),
          Tok("severity", sev),
          CTok("query", q) >>
       \o (IF symptoms # <<>>
           THEN CTokens("symptom", symptoms)
           ELSE << Tok("text", "Various symptoms described") >>)
       \o (IF ctx # <<>>
           THEN CTokens("context", ctx)
           ELSE << Tok("text", "No specific medical patterns identified") >>)
       \o << NTok("current_time", now),
             NTok("query_length", Len(q)),
             NTok("symptom_count", Len(symptoms)),
             Tok("text", "Please analyze this SPECIFIC case") >>

FallbackQueryCut == 200

\* generate_fallback_diagnosis; the context argument is not used by the code
generate_fallback_diagnosis(b, q, sev, ctx) ==
    LET Has(k) == InLowered(k, q)
        found ==
            (IF Has(K_pluck) \/ Has(K_feather)
             THEN << Tok("issue", "Feather destructive behavior") >> ELSE <<>>)
         \o (IF Has(K_sneeze) \/ Has(K_cough)
             THEN << Tok("issue", "Respiratory concerns") >> ELSE <<>>)
         \o (IF Has(K_diarrhea) \/ Has(K_loose)
             THEN << Tok("issue", "Gastrointestinal issues") >> ELSE <<>>)
         \o (IF Has(K_letharg) \/ Has(K_tired)
             THEN << Tok("issue", "Lethargy/Decreased activity") >> ELSE <<>>)
         \o (IF Has(K_not_eat) \/ Has(K_appetite)
             THEN << Tok("issue", "Appetite changes") >> ELSE <<>>)
         \o (IF Has(K_breath) \/ Has(K_wheeze)
             THEN << Tok("issue", "Breathing abnormalities") >> ELSE <<>>)
        issues == IF found = <<>>
                  THEN << Tok("issue", "General health concern") >> ELSE found
    IN << Tok("heading", "DIAGNOSTIC ASSESSMENT - AI ANALYSIS"),
          Tok("heading", "PRESENTING CASE"),
          Tok("breed", b),
          Tok("severity_lower", SeverityLower(sev)),
          CTok("query", Take(q, FallbackQueryCut)),
          Tok("heading", "SYMPTOM ANALYSIS") >>
       \o issues
       \o << Tok("heading", "DIFFERENTIAL CONSIDERATIONS"),
             Tok("heading", "URGENCY ASSESSMENT"),
             Tok("severity", sev),
             Tok("text", IF sev \in {"Mild", "Moderate"}
                         THEN "Low immediate risk but monitoring needed"
                         ELSE "Higher concern requiring prompt attention"),
             Tok("heading", "IMMEDIATE RECOMMENDATIONS"),
             Tok("heading", "SPECIFIC MONITORING FOR THIS CASE"),
             Tok("emergency_indicators", "Seek immediate veterinary care if"),
             Tok("text", "Note: This is general guidance.") >>

\* The on-screen cut of the query in the case summary
SummaryQueryCut == 150

\* What the button handler renders below the inputs: the case summary, the
\* diagnosis, the media section when media_analysis is truthy, the action
\* plan chosen by severity, and the page footer.
ScreenOutput(b, q, sev, diag, media) ==
    << Tok("heading", "AI DIAGNOSTIC REPORT"),
       Tok("breed", b),
       Tok("severity", sev),
       CTok("query", Take(q, SummaryQueryCut)) >>
    \o diag
    \o (IF media # NoneText
        THEN << Tok("heading", "MEDIA ANALYSIS") >> \o media
        ELSE <<>>)
    \o << Tok("heading", "ACTION PLAN") >>
    \o (IF sev \in {"Severe", "Critical"}
        THEN << Tok("heading", "IMMEDIATE ACTION REQUIRED"),
                Tok("emergency_resources",
                    "Avian Emergency Hotline: 1-800-AVIAN-VET; Animal Poison Control: (888) 426-4435") >>
        ELSE << Tok("heading", "RECOMMENDED ACTION PLAN"),
                Tok("severity_lower", SeverityLower(sev)),
                Tok("text", IF sev = "Moderate" THEN "1-2 days" ELSE "3-5 days"),
                Tok("text", "When to escalate") >>)
    \o << Tok("disclaimer",
              "This tool provides AI-generated analysis only. Always consult a certified avian veterinarian for medical care.") >>

\* report_content, the downloadable text, built at clock time now
report_content(b, q, sev, diag, media, now) ==
    << Tok("heading", "SQUAWK-A-THON AI DIAGNOSTIC REPORT"),
       NTok("generated", now),
       Tok("breed", b),
       Tok("severity", sev),
       CTok("query", q),
       Tok("heading", "AI DIAGNOSIS") >>
    \o diag
    \o << Tok("heading", "MEDIA ANALYSIS") >>
    \o (IF media # NoneText THEN media
        ELSE << Tok("text", "No media analysis performed") >>)
    \o << Tok("heading", "ACTION PLAN"),
          Tok("text", IF sev \in {"Severe", "Critical"}
                      THEN "URGENT: Veterinary attention required"
                      ELSE "Monitor and follow up as needed"),
          Tok("disclaimer",
              "AI-generated analysis for informational purposes only. Always consult with a certified avian veterinarian.") >>

\* The strings analyze_media_with_ai returns from its exception handlers
VideoFailureText ==
    << Tok("media_failure", "Video analysis requires advanced features. Focus on: mobility, coordination, activity level.") >>

AudioFailureText ==
    << Tok("media_failure", "Audio analysis requires advanced features. Listen for: changes in vocalization patterns.") >>

MediaLimitationText(err) ==
    << Tok("media_failure", "Media analysis encountered limitations"),
       Tok("error", err) >>

\* st.file_uploader: a file whose extension is not in the type list is not
\* accepted and the widget returns None
file_uploader(pick) ==
    IF pick # "None" /\ ExtLower(pick) \in UploaderTypes THEN pick ELSE "None"

\* The kind analyze_media_with_ai infers from the lowered extension
MediaKind(ext) ==
    CASE ext \in {".jpg", ".jpeg", ".png"} -> "image"
      [] ext \in {".mp4", ".mov"} -> "video"
      [] ext \in {".mp3", ".wav"} -> "audio"
      [] OTHER -> "none"

(***************************************************************************)
(* src/brain.py: the static tables and the pure text functions.            *)
(***************************************************************************)
SIMILARITY_SEARCH_K == 3

CaseIdModulus == 1000000

\* AvianKnowledgeBase.get_breed_info: the breed's record, or the generic
\* record for a breed the table does not hold
get_breed_info(b) ==
    CASE b = "Sun Conure" ->
           [temperature |-> "75-85F (24-29C)",
            diet |-> "Pellets (70%), Fruits/Veggies (20%), Nuts/Seeds (10%)",
            common_issues |-> "Fatty liver disease, Vitamin A deficiency, Feather destructive behavior"]
      [] b = "African Grey" ->
           [temperature |-> "75-85F",
            diet |-> "Calcium-rich pellets, vegetables, limited seeds",
            common_issues |-> "Calcium deficiency, Feather picking, Aspergillosis"]
      [] OTHER ->
           [temperature |-> "75-85F",
            diet |-> "Balanced pellets with fresh produce",
            common_issues |-> "Various health concerns"]

\* The strings get_fallback_knowledge returns
EmergencyKnowledge ==
    << Tok("knowledge", "EMERGENCY: Contact avian veterinarian immediately") >>

FeatherKnowledge ==
    << Tok("knowledge", "Feather issues often relate to: stress, nutritional deficiencies, parasites, or medical conditions") >>

RespiratoryKnowledge ==
    << Tok("knowledge", "Respiratory issues require prompt attention") >>

AppetiteKnowledge ==
    << Tok("knowledge", "Appetite changes: Monitor weight, offer favorite foods") >>

GeneralKnowledge ==
    << Tok("knowledge", "General avian care: Maintain proper temperature") >>

\* AvianRAGSystem.get_fallback_knowledge: the if/elif chain over keywords
get_fallback_knowledge(q) ==
    LET AnyIn(words) == \E i \in 1..Len(words) : InLowered(words[i], q)
    IN IF AnyIn(<<K_emergency, K_critical, K_urgent>>)
       THEN EmergencyKnowledge
       ELSE IF AnyIn(<<K_feather, K_pluck>>)
       THEN FeatherKnowledge
       ELSE IF AnyIn(<<K_breath, K_sneeze, K_cough>>)
       THEN RespiratoryKnowledge
       ELSE IF AnyIn(<<K_eat, K_appetite, K_food>>)
       THEN AppetiteKnowledge
       ELSE GeneralKnowledge

\* The ten documents of create_default_knowledge_base
default_documents ==
    << "Avian Emergency Signs", "Common Parrot Diseases", "Nutrition Basics",
       "Environmental Needs", "Behavioral Health", "First Aid",
       "Feather Issues", "Respiratory Issues", "Digestive Problems",
       "Avian Veterinary Care" >>

\* The chunks create_vector_db.py gets from the data folder
data_documents == << "data chunk 1", "data chunk 2" >>

\* The vector_db directory and the store loaded from it: model stands for
\* index.faiss (the vectors, of the embedding model's dimension), docs for
\* index.pkl (the docstore)
NoIndex == [model |-> "None", docs |-> <<>>]

\* What create_vector_db.py saves
DataIndex == [model |-> "MiniLM", docs |-> data_documents]

\* FAISS similarity_search(query, k): the k nearest chunks, best first.  The
\* order is a fixed function of the index and the query; it is modelled as
\* a rotation of the stored chunks by the query's length.
similarity_search(index, q, k) ==
    LET n == Len(index.docs)
        r == Len(q) % n
        order == [i \in 1..n |-> index.docs[((i - 1 + r) % n) + 1]]
    IN Take(order, k)

\* The optional argument k of AvianRAGSystem.query: NoK when the caller
\* gives none (k is None), <<n>> when the caller gives n
NoK == <<>>

\* k = k or Config.SIMILARITY_SEARCH_K: Python's or takes the right operand
\* when the left one is None or 0
KOrDefault(k) == IF k = NoK \/ k[1] = 0 THEN SIMILARITY_SEARCH_K ELSE k[1]

\* AvianRAGSystem.query: keyword fallback without a store or embeddings, or
\* when the search raises; otherwise the chunks joined by newlines
RagQuery(vs, emb, q, k, search_raises) ==
    IF vs = NoIndex \/ emb = "None"
    THEN get_fallback_knowledge(q)
    ELSE IF search_raises
         THEN get_fallback_knowledge(q)
         ELSE Tokens("doc", similarity_search(vs, q, KOrDefault(k)))

\* hash(f"{breed}{query}{timestamp}"): Python salts str hashes with a seed
\* drawn per process; modelled as a mix of the string's parts and the seed
StrHash(b, q, now, seed) ==
    (IF b = "Sun Conure" THEN 7919 ELSE 104729) * 31
    + Len(q) * 131 + now * 8191 + seed * 524287

\* AvianDiagnosticCrew.create_tasks: the four task descriptions
create_tasks(b, q, ctx) ==
    << Tok("heading", "Conduct thorough medical assessment"),
       Tok("breed", b), CTok("query", q) >> \o ctx
    \o << Tok("heading", "Analyze behavioral aspects"),
          Tok("breed", b), CTok("query", q),
          Tok("heading", "Provide nutritional assessment"),
          Tok("breed", b), CTok("query", q), Tok("breed", b),
          Tok("heading", "Assess urgency and provide emergency guidance"),
          Tok("breed", b), CTok("query", q) >>

\* AvianDiagnosticCrew.compile_final_report at clock time now in a process
\* whose hash seed is seed
compile_final_report(crew_output, b, q, now, seed) ==
    << Tok("heading", "SQUAWK-A-THON AVIAN DIAGNOSTIC REPORT"),
       NTok("generated", now),
       NTok("case_id", StrHash(b, q, now, seed) % CaseIdModulus),
       Tok("heading", "CASE SUMMARY"),
       Tok("breed", b),
       CTok("query", q),
       Tok("heading", "COMPREHENSIVE DIAGNOSTIC ANALYSIS") >>
    \o crew_output
    \o << Tok("heading", "INTEGRATED RECOMMENDATIONS"),
          Tok("disclaimer",
              "This AI-generated report is for informational purposes only. It is NOT a substitute for professional veterinary care."),
          Tok("emergency_resources",
              "Emergency Contact: Association of Avian Veterinarians - 1-800-AVIAN-VET"),
          Tok("text", "Report Generated by: Squawk-a-Thon AI Diagnostic System") >>

\* AvianDiagnosticCrew.generate_fallback_report, given the context its own
\* call of rag_system.query returned
generate_fallback_report(b, q, error, rag_context) ==
    LET breed_info == get_breed_info(b)
    IN << Tok("heading", "AVIAN HEALTH ADVISORY - BASIC ASSESSMENT"),
          Tok("breed", b),
          CTok("query", q),
          Tok("heading", "IMMEDIATE GUIDANCE"),
          Tok("breed", b),
          Tok("temperature", breed_info.temperature),
          Tok("diet", breed_info.diet),
          Tok("common_issues", breed_info.common_issues),
          Tok("heading", "Based on your concern") >>
       \o rag_context
       \o << Tok("heading", "EMERGENCY PROTOCOL"),
             Tok("text", "Note: Advanced diagnostic system temporarily unavailable."),
             (IF error # "" THEN Tok("error", error)
              ELSE Tok("text", "Please consult avian veterinarian for proper assessment.")),
             Tok("emergency_resources",
                 "Emergency: 1-800-AVIAN-VET | Online Resources: aav.org") >>

\* The fallback_response crew_ai_response builds in its own handler; every
\* error text of the model is shorter than the cut
fallback_response(b, q, error) ==
    << Tok("heading", "Squawk-a-Thon Diagnostic System"),
       Tok("breed", b),
       CTok("query", q),
       Tok("heading", "System Status"),
       Tok("heading", "Basic Guidance"),
       Tok("breed", b),
       Tok("emergency_indicators", "Emergency Signs (Seek Immediate Vet Care)"),
       Tok("error", error) >>

(***************************************************************************)
(* Bounds and the environment's answers.                                   *)
(***************************************************************************)
\* Requests served one after the other in one behaviour
MaxRequests == 2

\* The wall clock advances between requests, up to MaxClock
MaxClock == 1

\* Hash seeds a process can draw: 0..MaxSeed
MaxSeed == 1

\* The values of k a caller gives to AvianRAGSystem.query
QueryKs == {NoK, <<0>>, <<2>>, <<4>>}

MinQueryLen == 10

\* str(e) of the exception a hosted call raises
Errors == {"Connection error.", "Rate limit exceeded"}

\* OPENAI_API_KEY in the environment: not set (or empty), set to a string
\* that is no key of the service, or set to a key the service accepts
OpenAIKeys == {"absent", "malformed", "valid"}

\* str(e) of the exception the text service's client raises: the service
\* rejects every request made with a string that is no key
ServiceErrors(key) ==
    IF key = "valid" THEN Errors ELSE {"Incorrect API key provided"}

\* str(e) of the exception a media step raises
MediaErrors == {"Connection error."}

\* What the hosted text generation answers
GenTexts == { << Tok("generated", "assessment") >> }

\* What the hosted multimodal model answers (response.text)
MediaTexts == { << Tok("media_generated", "observations") >> }

VARIABLES
    entry,          \* what runs: "app" (the page), "brain" (crew_ai_response),
                    \* "rag" (load_rag_chain) or "query" (a caller's own
                    \* AvianRAGSystem().query(query, k))
    breed, severity, query,   \* the case the user entered
    query_k,        \* the k given to AvianRAGSystem.query, NoK when not given
    picked,         \* the file the user handed to the uploader
    media_file,     \* what st.file_uploader returned
    openai_key,     \* OPENAI_API_KEY: one of OpenAIKeys
    google_key,     \* whether GOOGLE_API_KEY is in the environment
    session_state,  \* st.session_state: a function on the keys defined so far
    pc,             \* position of the running request
    context,        \* extract_relevant_knowledge's / rag_system.query's result
    prompt,         \* the assembled prompt, NoneText before
    diagnosis,      \* app.py: the primary text
    gen_outcome,    \* "none", "generated", "failed", "unavailable", "config"
    gen_error,      \* str(e) of the failed generation, "" otherwise
    media_analysis, \* app.py: analyze_media_with_ai's result
    media_outcome,  \* "none", "skipped", "unavailable", "ok", "failed"
    screen,         \* app.py: what the page shows
    report,         \* the report: report_content (app) or the returned text
    steps,          \* the steps of the request so far
    escaped,        \* an exception left the pipeline entry point
    tmp_files,      \* the temporary files that exist
    remote_file,    \* state of the uploaded file at the hosted service
    gen_issued_on,  \* remote_file when the request referencing it was issued
    clock, hash_seed,
    embeddings,     \* AvianRAGSystem.embeddings: "None" or the model loaded
    vector_store,   \* AvianRAGSystem.vector_store
    disk_index,     \* the vector_db directory
    rebuild_pc,     \* create_vector_db.py's save_local: "idle", "faiss_written"
    index_read,     \* load_local of the request: "none", "complete", or
                    \* "partial" when it read the directory during a save
    search_calls,   \* the similarity_search calls of the request, in order
    prev,           \* the previous finished request
    nreq            \* requests started

inputs == <<entry, breed, severity, query, query_k, picked, media_file,
            openai_key, google_key>>

request == <<context, prompt, diagnosis, gen_outcome, gen_error,
             media_analysis, media_outcome, screen, report, steps, escaped>>

media_res == <<tmp_files, remote_file, gen_issued_on>>

process == <<clock, hash_seed>>

rag == <<embeddings, vector_store, disk_index, rebuild_pc, index_read,
         search_calls>>

vars == <<inputs, session_state, pc, request, media_res, process, rag,
          prev, nreq>>

NoPrev == [gen_outcome |-> "none", media_outcome |-> "none",
           diagnosis |-> NoneText, media_analysis |-> NoneText,
           report |-> NoneText, result |-> NoneText]

EmptySession == [k \in {} |-> FALSE]

Init ==
    /\ entry \in {"app", "brain", "rag", "query"}
    \* load_rag_chain and AvianRAGSystem.query take the query only and read
    \* no credential; crew_ai_response takes no severity either
    /\ breed \in (IF entry \in {"rag", "query"} THEN {"Cockatiel"} ELSE Breeds)
    /\ severity \in (IF entry = "app" THEN Severities ELSE {"Moderate"})
    /\ query \in Queries
    \* the callers in the repository give no k
    /\ query_k \in (IF entry = "query" THEN QueryKs ELSE {NoK})
    \* crew_ai_response takes no media and brain.py reads no vision key
    /\ picked \in (IF entry = "app" THEN PickedFiles ELSE {"None"})
    /\ media_file = file_uploader(picked)
    /\ openai_key \in (IF entry \in {"rag", "query"} THEN {"absent"}
                        ELSE OpenAIKeys)
    /\ google_key \in (IF entry = "app" THEN BOOLEAN ELSE {FALSE})
    /\ session_state = EmptySession
    /\ pc = (IF entry = "app" THEN "start" ELSE "Idle")
    /\ context = NoneText /\ prompt = NoneText /\ diagnosis = NoneText
    /\ gen_outcome = "none" /\ gen_error = ""
    /\ media_analysis = NoneText /\ media_outcome = "none"
    /\ screen = NoneText /\ report = NoneText
    /\ steps = << "Idle" >>
    /\ escaped = FALSE
    /\ tmp_files = {}
    /\ remote_file = "none"
    /\ gen_issued_on = "none"
    /\ clock = 0
    \* app.py hashes nothing and reads no index
    /\ hash_seed \in (IF entry = "brain" THEN 0..MaxSeed ELSE {0})
    /\ embeddings = "None"
    /\ vector_store = NoIndex
    /\ disk_index \in (IF entry = "app" THEN {NoIndex} ELSE {NoIndex, DataIndex})
    /\ rebuild_pc = "idle"
    /\ index_read = "none"
    /\ search_calls = <<>>
    /\ prev = NoPrev
    /\ nreq = 0

(***************************************************************************)
(* src/app.py: start-up and the button handler.                            *)
(***************************************************************************)
\* initialize_models, first call in the process: each flag is False without
\* its key.  With the key (any truthy string) the client object is
\* constructed, which contacts no service, and the flag is True.
initialize_models ==
    /\ pc = "start" /\ entry = "app"
    /\ session_state' = [k \in {"openai_available", "gemini_available"} |->
                            IF k = "openai_available" THEN openai_key # "absent"
                            ELSE google_key]
    /\ pc' = "status"
    /\ UNCHANGED <<inputs, request, media_res, process, rag, prev, nreq>>

\* Another browser session opens the page: its st.session_state is empty
NewSession ==
    /\ pc = "Idle" /\ entry = "app"
    /\ session_state' = EmptySession
    /\ pc' = "session_start"
    /\ UNCHANGED <<inputs, request, media_res, process, rag, prev, nreq>>

\* models = initialize_models() under @st.cache_resource, after the first
\* call: the cached dict is returned and the function's body does not run
CachedModels ==
    /\ pc = "session_start"
    /\ pc' = "status"
    /\ UNCHANGED <<inputs, session_state, request, media_res, process, rag,
                   prev, nreq>>

\* The AI System Status expander reads both flags on every script run; the
\* read of an attribute st.session_state does not hold raises AttributeError
\* and ends the script run
StatusPanel ==
    /\ pc = "status"
    /\ pc' = IF {"openai_available", "gemini_available"} \subseteq DOMAIN session_state
             THEN "Idle" ELSE "ScriptError"
    /\ UNCHANGED <<inputs, session_state, request, media_res, process, rag,
                   prev, nreq>>

\* A new request starts with the request's variables cleared
ClearRequest ==
    /\ context' = NoneText /\ prompt' = NoneText /\ diagnosis' = NoneText
    /\ gen_outcome' = "none" /\ gen_error' = ""
    /\ media_analysis' = NoneText /\ media_outcome' = "none"
    /\ screen' = NoneText /\ report' = NoneText
    /\ escaped' = FALSE
    /\ remote_file' = "none" /\ gen_issued_on' = "none"

\* The GENERATE AI DIAGNOSIS button: a short query stops the script run
AppSubmit ==
    /\ pc = "Idle" /\ entry = "app"
    /\ nreq < MaxRequests
    /\ nreq' = nreq + 1
    /\ ClearRequest
    /\ IF query = <<>> \/ Len(Strip(query)) < MinQueryLen
       THEN pc' = "Rejected"
       ELSE pc' = "app_retrieve"
    /\ steps' = << "Idle" >>
    /\ UNCHANGED <<inputs, session_state, tmp_files, process, rag, prev>>

\* analyze_symptoms_with_ai, first statement
AppExtractKnowledge ==
    /\ pc = "app_retrieve"
    /\ context' = extract_relevant_knowledge(query)
    /\ steps' = Append(steps, "ContextRetrieved")
    /\ pc' = "app_generate"
    /\ UNCHANGED <<inputs, session_state, prompt, diagnosis, gen_outcome,
                   gen_error, media_analysis, media_outcome, screen, report,
                   escaped, media_res, process, rag, prev, nreq>>

\* generate_ai_diagnosis without the text service: the fallback at once
AppGenUnavailable ==
    /\ pc = "app_generate"
    /\ ~session_state["openai_available"]
    /\ diagnosis' = generate_fallback_diagnosis(breed, query, severity, context)
    /\ gen_outcome' = "unavailable"
    /\ steps' = Append(steps, "FallbackUsed")
    /\ pc' = "app_media"
    /\ UNCHANGED <<inputs, session_state, context, prompt, gen_error,
                   media_analysis, media_outcome, screen, report, escaped,
                   media_res, process, rag, prev, nreq>>

\* generate_ai_diagnosis: the prompt is built and the completion requested
AppGenIssue ==
    /\ pc = "app_generate"
    /\ session_state["openai_available"]
    /\ prompt' = create_diagnostic_prompt(breed, query, severity, context, clock)
    /\ steps' = Append(steps, "PromptAssembled")
    /\ pc' = "app_await_gen"
    /\ UNCHANGED <<inputs, session_state, context, diagnosis, gen_outcome,
                   gen_error, media_analysis, media_outcome, screen, report,
                   escaped, media_res, process, rag, prev, nreq>>

\* The completion arrives: response.choices[0].message.content is returned
AppGenReturns ==
    /\ pc = "app_await_gen"
    /\ openai_key = "valid"
    /\ \E text \in GenTexts : diagnosis' = text
    /\ gen_outcome' = "generated"
    /\ steps' = Append(steps, "Generated")
    /\ pc' = "app_media"
    /\ UNCHANGED <<inputs, session_state, context, prompt, gen_error,
                   media_analysis, media_outcome, screen, report, escaped,
                   media_res, process, rag, prev, nreq>>

\* A handler that lets the exception through instead
AppGenExcept_Reraises(err) ==
    /\ gen_outcome' = "failed"
    /\ gen_error' = err
    /\ steps' = Append(steps, "Failed")
    /\ pc' = "Crashed"
    /\ escaped' = TRUE
    /\ UNCHANGED diagnosis

\* The except handler of generate_ai_diagnosis
AppGenExcept(err) ==
    /\ diagnosis' = generate_fallback_diagnosis(breed, query, severity, context)
    /\ gen_outcome' = "failed"
    /\ gen_error' = err
    /\ steps' = steps \o << "Failed", "FallbackUsed" >>
    /\ pc' = "app_media"
    /\ escaped' = escaped

\* The call raises
AppGenRaises ==
    /\ pc = "app_await_gen"
    /\ \E err \in ServiceErrors(openai_key) : AppGenExcept(err)
    /\ UNCHANGED <<inputs, session_state, context, prompt,
                   media_analysis, media_outcome, screen, report,
                   media_res, process, rag, prev, nreq>>

(***************************************************************************)
(* src/app.py: analyze_media_with_ai, called by the button handler.        *)
(***************************************************************************)
mrest == <<inputs, session_state, context, prompt, diagnosis, gen_outcome,
           gen_error, screen, report, escaped, process, rag, prev, nreq>>

\* The temporary file of the running request
TmpPath == nreq

\* if media_file: ... else: nothing is analysed
AppMediaSkip ==
    /\ pc = "app_media"
    /\ media_file = "None"
    /\ media_analysis' = NoneText
    /\ media_outcome' = "skipped"
    /\ steps' = Append(steps, "MediaSkipped")
    /\ pc' = "app_compile"
    /\ UNCHANGED <<mrest, media_res>>

\* analyze_media_with_ai returns None without the multimodal model
AppMediaUnavailable ==
    /\ pc = "app_media"
    /\ media_file # "None"
    /\ ~session_state["gemini_available"]
    /\ media_analysis' = NoneText
    /\ media_outcome' = "unavailable"
    /\ steps' = Append(steps, "MediaAnalyzed")
    /\ pc' = "app_compile"
    /\ UNCHANGED <<mrest, media_res>>

\* The outer except handler: the failure is returned as a string
MediaOuterExcept(err) ==
    /\ media_analysis' = MediaLimitationText(err)
    /\ media_outcome' = "failed"
    /\ steps' = Append(steps, "MediaAnalyzed")
    /\ pc' = "app_compile"

\* Image branch: Image.open raises, or the request is sent with the image
AppMediaImage ==
    /\ pc = "app_media"
    /\ media_file # "None"
    /\ session_state["gemini_available"]
    /\ MediaKind(ExtLower(media_file)) = "image"
    /\ \/ \E err \in MediaErrors : MediaOuterExcept(err)
       \/ /\ pc' = "media_await_img"
          /\ UNCHANGED <<media_analysis, media_outcome, steps>>
    /\ UNCHANGED <<mrest, media_res>>

AppMediaImageReturns ==
    /\ pc = "media_await_img"
    /\ \E text \in MediaTexts : media_analysis' = text
    /\ media_outcome' = "ok"
    /\ steps' = Append(steps, "MediaAnalyzed")
    /\ pc' = "app_compile"
    /\ UNCHANGED <<mrest, media_res>>

AppMediaImageRaises ==
    /\ pc = "media_await_img"
    /\ \E err \in MediaErrors : MediaOuterExcept(err)
    /\ UNCHANGED <<mrest, media_res>>

\* Video and audio branches: NamedTemporaryFile(delete=False) creates the
\* file, then the blob is read and written into it.  A failure of the read
\* or the write leaves the with block with the file on disk and reaches the
\* outer handler.
AppMediaTmpWrite ==
    /\ pc = "app_media"
    /\ media_file # "None"
    /\ session_state["gemini_available"]
    /\ MediaKind(ExtLower(media_file)) \in {"video", "audio"}
    /\ tmp_files' = tmp_files \cup {TmpPath}
    /\ \/ /\ pc' = "media_upload"
          /\ UNCHANGED <<media_analysis, media_outcome, steps>>
       \/ \E err \in MediaErrors : MediaOuterExcept(err)
    /\ UNCHANGED <<mrest, remote_file, gen_issued_on>>

\* The finally clause: os.unlink(tmp_path)
Unlink(files, path) == files \ {path}

\* The inner except handler and finally clause, then return result; the
\* handle of the uploaded file goes out of scope
MediaInnerExcept ==
    /\ media_analysis' = IF MediaKind(ExtLower(media_file)) = "video"
                         THEN VideoFailureText ELSE AudioFailureText
    /\ media_outcome' = "failed"
    /\ tmp_files' = Unlink(tmp_files, TmpPath)
    /\ remote_file' = "none" /\ gen_issued_on' = "none"
    /\ steps' = Append(steps, "MediaAnalyzed")
    /\ pc' = "app_compile"

\* genai.upload_file returns: the service holds the file, ready or not yet
AppMediaUploadReturns ==
    /\ pc = "media_upload"
    /\ remote_file' \in {"PROCESSING", "ACTIVE"}
    /\ pc' = "media_generate"
    /\ UNCHANGED <<mrest, media_analysis, media_outcome, steps, tmp_files,
                   gen_issued_on>>

AppMediaUploadRaises ==
    /\ pc = "media_upload"
    /\ MediaInnerExcept
    /\ UNCHANGED mrest

\* The statement after upload_file: generate_content([media_prompt, file])
AppMediaGenerate ==
    /\ pc = "media_generate"
    /\ gen_issued_on' = remote_file
    /\ pc' = "media_await_gen"
    /\ UNCHANGED <<mrest, media_analysis, media_outcome, steps, tmp_files,
                   remote_file>>

\* The service answers a request whose file was ready
AppMediaGenReturns ==
    /\ pc = "media_await_gen"
    /\ gen_issued_on = "ACTIVE"
    /\ \E text \in MediaTexts : media_analysis' = text
    /\ media_outcome' = "ok"
    /\ tmp_files' = Unlink(tmp_files, TmpPath)
    /\ remote_file' = "none" /\ gen_issued_on' = "none"
    /\ steps' = Append(steps, "MediaAnalyzed")
    /\ pc' = "app_compile"
    /\ UNCHANGED mrest

AppMediaGenRaises ==
    /\ pc = "media_await_gen"
    /\ MediaInnerExcept
    /\ UNCHANGED mrest

\* The hosted service finishes processing an uploaded file
RemoteProcess ==
    /\ pc \in {"media_generate", "media_await_gen"}
    /\ remote_file = "PROCESSING"
    /\ remote_file' \in {"ACTIVE", "FAILED"}
    /\ UNCHANGED <<inputs, session_state, pc, request, tmp_files,
                   gen_issued_on, process, rag, prev, nreq>>

\* Step 4 and the display: the page output and report_content
AppCompile ==
    /\ pc = "app_compile"
    /\ screen' = ScreenOutput(breed, query, severity, diagnosis, media_analysis)
    /\ report' = report_content(breed, query, severity, diagnosis,
                                media_analysis, clock)
    /\ steps' = steps \o << "Compiled", "Done" >>
    /\ pc' = "Done"
    /\ UNCHANGED <<inputs, session_state, context, prompt, diagnosis,
                   gen_outcome, gen_error, media_analysis, media_outcome,
                   escaped, media_res, process, rag, prev, nreq>>

(***************************************************************************)
(* Between requests.                                                       *)
(***************************************************************************)
\* The text a finished request handed to the user as its primary text
Result == IF entry = "app" THEN diagnosis ELSE report

\* The user or caller is back at the start; the finished request is kept
\* for comparison with the next one
NextRequest ==
    /\ pc \in {"Done", "Rejected", "RagReturned", "QueryReturned"}
    /\ nreq < MaxRequests
    /\ prev' = [gen_outcome |-> gen_outcome, media_outcome |-> media_outcome,
                diagnosis |-> diagnosis, media_analysis |-> media_analysis,
                report |-> report, result |-> Result]
    /\ pc' = "Idle"
    /\ UNCHANGED <<inputs, session_state, request, media_res, process, rag,
                   nreq>>

\* Time passes between requests; the clock counts from the first request
Tick ==
    /\ pc = "Idle"
    /\ nreq > 0
    /\ clock < MaxClock
    /\ clock' = clock + 1
    /\ UNCHANGED <<inputs, session_state, pc, request, media_res, hash_seed,
                   rag, prev, nreq>>

(***************************************************************************)
(* src/brain.py: crew_ai_response, AvianDiagnosticCrew, AvianRAGSystem.    *)
(***************************************************************************)
brest == <<inputs, session_state, media_analysis, media_outcome, screen,
           media_res, process, prev, nreq>>

\* crew_ai_response is called: a new AvianDiagnosticCrew is constructed
BrainSubmit ==
    /\ pc = "Idle" /\ entry = "brain"
    /\ nreq < MaxRequests
    /\ nreq' = nreq + 1
    /\ ClearRequest
    /\ steps' = << "Idle" >>
    /\ embeddings' = "None"
    /\ vector_store' = NoIndex
    /\ index_read' = "none"
    /\ search_calls' = <<>>
    /\ pc' = "brain_init"
    /\ UNCHANGED <<inputs, session_state, tmp_files, process, disk_index,
                   rebuild_pc, prev>>

\* load_rag_chain is called: a new AvianRAGSystem is constructed
LoadRagChainCall ==
    /\ pc = "Idle" /\ entry = "rag"
    /\ nreq < MaxRequests
    /\ nreq' = nreq + 1
    /\ ClearRequest
    /\ steps' = << "Idle" >>
    /\ embeddings' = "None"
    /\ vector_store' = NoIndex
    /\ index_read' = "none"
    /\ search_calls' = <<>>
    /\ pc' = "rag_embed"
    /\ UNCHANGED <<inputs, session_state, tmp_files, process, disk_index,
                   rebuild_pc, prev>>

\* A caller constructs an AvianRAGSystem of its own to query it
RagSystemCall ==
    /\ pc = "Idle" /\ entry = "query"
    /\ nreq < MaxRequests
    /\ nreq' = nreq + 1
    /\ ClearRequest
    /\ steps' = << "Idle" >>
    /\ embeddings' = "None"
    /\ vector_store' = NoIndex
    /\ index_read' = "none"
    /\ search_calls' = <<>>
    /\ pc' = "rag_embed"
    /\ UNCHANGED <<inputs, session_state, tmp_files, process, disk_index,
                   rebuild_pc, prev>>

\* The except handler of crew_ai_response
BrainOuterExcept(err) ==
    /\ report' = fallback_response(breed, query, err)
    /\ gen_error' = err
    /\ steps' = steps \o << "FallbackUsed", "Done" >>
    /\ pc' = "Done"
    /\ escaped' = escaped

\* AvianDiagnosticCrew.__init__: Config.validate, then ChatOpenAI
BrainValidate ==
    /\ pc = "brain_init"
    /\ IF openai_key = "absent"
       THEN /\ BrainOuterExcept("OPENAI_API_KEY not found in environment variables")
            /\ gen_outcome' = "config"
       ELSE /\ pc' = "rag_embed"
            /\ UNCHANGED <<report, gen_error, steps, escaped, gen_outcome>>
    /\ UNCHANGED <<brest, rag, context, prompt, diagnosis>>

\* AvianRAGSystem.initialize_embeddings: the configured model, the simpler
\* model when that fails, None when both fail
initialize_embeddings ==
    /\ pc = "rag_embed"
    /\ embeddings' \in {"mpnet", "MiniLM", "None"}
    /\ pc' = "rag_load"
    /\ UNCHANGED <<brest, request, vector_store, disk_index, rebuild_pc,
                   index_read, search_calls>>

DefaultIndex(emb) == [model |-> emb, docs |-> default_documents]

\* create_default_knowledge_base with embeddings: the index is built and
\* saved to VECTOR_DB_PATH
CreateDefaultOk ==
    /\ vector_store' = DefaultIndex(embeddings)
    /\ disk_index' = DefaultIndex(embeddings)

\* Where the constructor's caller continues
AfterRagInit ==
    CASE entry = "rag" -> "rag_query"
      [] entry = "query" -> "system_query"
      [] OTHER -> "brain_exec"

\* The except handler of load_rag_chain calls
\* AvianKnowledgeBase().get_fallback_context, a method the class does not
\* have: AttributeError leaves load_rag_chain
LoadRagChainExcept ==
    /\ pc' = "RagRaised"
    /\ UNCHANGED request

\* The same condition without its second operand
CanLoadIndex_PathOnly == disk_index # NoIndex

\* if os.path.exists(Config.VECTOR_DB_PATH) and self.embeddings
CanLoadIndex == disk_index # NoIndex /\ embeddings # "None"

\* AvianRAGSystem.load_or_create_vector_store, then back in __init__
load_or_create_vector_store ==
    /\ pc = "rag_load"
    /\ \/ \* the directory exists and embeddings are loaded: load_local reads
          \* index.faiss and index.pkl as they are at this moment
          /\ CanLoadIndex
          /\ disk_index.docs # <<>>
          /\ vector_store' = disk_index
          /\ index_read' = IF rebuild_pc = "faiss_written" THEN "partial"
                           ELSE "complete"
          /\ pc' = AfterRagInit
          /\ UNCHANGED <<disk_index, request>>
       \/ \* load_local raises; the handler creates the default index
          /\ CanLoadIndex /\ embeddings # "None"
          /\ CreateDefaultOk
          /\ pc' = AfterRagInit
          /\ UNCHANGED <<index_read, request>>
       \/ \* no embeddings: create_default_knowledge_base does nothing
          /\ embeddings = "None"
          /\ pc' = AfterRagInit
          /\ UNCHANGED <<vector_store, disk_index, index_read, request>>
       \/ \* no directory: the default index is created, at once or on the
          \* handler's second attempt
          /\ ~CanLoadIndex /\ embeddings # "None"
          /\ CreateDefaultOk
          /\ pc' = AfterRagInit
          /\ UNCHANGED <<index_read, request>>
       \/ \* creating the default index raises in the handler as well: the
          \* constructor fails and crew_ai_response handles it
          /\ embeddings # "None" /\ entry = "brain"
          /\ \E err \in Errors : BrainOuterExcept(err)
          /\ gen_outcome' = "config"
          /\ UNCHANGED <<vector_store, disk_index, index_read, context, prompt,
                         diagnosis, media_analysis, media_outcome, screen>>
       \/ \* the same under load_rag_chain, whose handler raises
          /\ embeddings # "None" /\ entry = "rag"
          /\ LoadRagChainExcept
          /\ UNCHANGED <<vector_store, disk_index, index_read>>
       \/ \* the same with no handler around the constructor: the exception
          \* goes to the caller
          /\ embeddings # "None" /\ entry = "query"
          /\ pc' = "ConstructorRaised"
          /\ UNCHANGED <<vector_store, disk_index, index_read, request>>
    /\ UNCHANGED <<inputs, session_state, media_res, process, prev, nreq,
                   embeddings, rebuild_pc, search_calls>>

\* similarity_search raises when the query vector's dimension is not the
\* index's: the store was built with another embedding model
SearchRaises == vector_store # NoIndex /\ vector_store.model # embeddings

\* AvianRAGSystem.query reaches vector_store.similarity_search(query, k=k)
\* when it holds a store and embeddings: the call embeds the query with
\* self.embeddings and searches the index, whether or not it then raises
QuerySearches(k, caller) ==
    /\ search_calls' =
          IF vector_store = NoIndex \/ embeddings = "None"
          THEN search_calls
          ELSE Append(search_calls,
                      [k |-> KOrDefault(k),
                       model |-> embeddings,
                       index_model |-> vector_store.model,
                       caller |-> caller])
    /\ UNCHANGED <<embeddings, vector_store, disk_index, rebuild_pc,
                   index_read>>

\* load_rag_chain: return rag_system.query(query)
LoadRagChainQuery ==
    /\ pc = "rag_query"
    /\ context' = RagQuery(vector_store, embeddings, query, NoK, SearchRaises)
    /\ QuerySearches(NoK, "load_rag_chain")
    /\ pc' = "RagReturned"
    /\ UNCHANGED <<brest, prompt, diagnosis, gen_outcome, gen_error,
                   report, steps, escaped>>

\* The caller's rag_system.query(query, k), or query(query) without k
RagSystemQuery ==
    /\ pc = "system_query"
    /\ context' = RagQuery(vector_store, embeddings, query, query_k, SearchRaises)
    /\ QuerySearches(query_k, "caller")
    /\ pc' = "QueryReturned"
    /\ UNCHANGED <<brest, prompt, diagnosis, gen_outcome, gen_error,
                   report, steps, escaped>>

\* execute_diagnostic step 1: rag_system.query(query)
BrainRetrieve ==
    /\ pc = "brain_exec"
    /\ context' = RagQuery(vector_store, embeddings, query, NoK, SearchRaises)
    /\ QuerySearches(NoK, "execute_diagnostic")
    /\ steps' = Append(steps, "ContextRetrieved")
    /\ pc' = "brain_tasks"
    /\ UNCHANGED <<brest, prompt, diagnosis, gen_outcome, gen_error,
                   report, escaped>>

\* Steps 2 to 4: agents, tasks, and the crew is kicked off
BrainCreateTasks ==
    /\ pc = "brain_tasks"
    /\ prompt' = create_tasks(breed, query, context)
    /\ steps' = Append(steps, "PromptAssembled")
    /\ pc' = "brain_await"
    /\ UNCHANGED <<brest, rag, context, diagnosis, gen_outcome, gen_error,
                   report, escaped>>

\* kickoff returns: step 5 compiles the final report
BrainKickoffReturns ==
    /\ pc = "brain_await"
    /\ openai_key = "valid"
    /\ \E text \in GenTexts :
          /\ diagnosis' = text
          /\ report' = compile_final_report(text, breed, query, clock, hash_seed)
    /\ gen_outcome' = "generated"
    /\ steps' = steps \o << "Generated", "Compiled", "Done" >>
    /\ pc' = "Done"
    /\ UNCHANGED <<brest, rag, context, prompt, gen_error, escaped>>

\* The except handler of execute_diagnostic: generate_fallback_report, which
\* queries the RAG system again
ExecuteExcept(err) ==
    /\ report' = generate_fallback_report(breed, query, err,
                    RagQuery(vector_store, embeddings, query, NoK, SearchRaises))
    /\ QuerySearches(NoK, "generate_fallback_report")
    /\ gen_outcome' = "failed"
    /\ gen_error' = err
    /\ steps' = steps \o << "Failed", "ContextRetrieved", "FallbackUsed", "Done" >>
    /\ pc' = "Done"
    /\ escaped' = escaped

\* kickoff raises
BrainKickoffRaises ==
    /\ pc = "brain_await"
    /\ \E err \in ServiceErrors(openai_key) : ExecuteExcept(err)
    /\ UNCHANGED <<brest, context, prompt, diagnosis>>

\* The program is started anew: Python draws a new hash seed
RestartProcess ==
    /\ pc = "Idle" /\ entry = "brain"
    /\ hash_seed' \in (0..MaxSeed) \ {hash_seed}
    /\ UNCHANGED <<inputs, session_state, pc, request, media_res, clock, rag,
                   prev, nreq>>

\* src/create_vector_db.py runs in a process of its own, at any time, and
\* takes no lock.  save_local writes index.faiss, then index.pkl.  The
\* serving process reads the directory only in load_or_create_vector_store,
\* so the steps are placed between requests and around that read.
RebuildWindow == pc \in {"Idle", "rag_embed", "rag_load"} /\ entry # "app"

RebuildWriteFaiss ==
    /\ RebuildWindow
    /\ rebuild_pc = "idle"
    /\ disk_index # DataIndex
    /\ disk_index' = [model |-> DataIndex.model, docs |-> disk_index.docs]
    /\ rebuild_pc' = "faiss_written"
    /\ UNCHANGED <<inputs, session_state, pc, request, media_res, process,
                   embeddings, vector_store, index_read, search_calls, prev,
                   nreq>>

RebuildWritePkl ==
    /\ RebuildWindow
    /\ rebuild_pc = "faiss_written"
    /\ disk_index' = [model |-> disk_index.model, docs |-> DataIndex.docs]
    /\ rebuild_pc' = "idle"
    /\ UNCHANGED <<inputs, session_state, pc, request, media_res, process,
                   embeddings, vector_store, index_read, search_calls, prev,
                   nreq>>

(***************************************************************************)
(* The specifications.                                                     *)
(***************************************************************************)
\* The steps the program takes by itself
ProgramStep ==
    \/ initialize_models
    \/ CachedModels
    \/ StatusPanel
    \/ AppExtractKnowledge
    \/ AppGenUnavailable
    \/ AppGenIssue
    \/ AppMediaSkip
    \/ AppMediaUnavailable
    \/ AppMediaImage
    \/ AppMediaTmpWrite
    \/ AppMediaGenerate
    \/ AppCompile
    \/ BrainValidate
    \/ initialize_embeddings
    \/ load_or_create_vector_store
    \/ BrainRetrieve
    \/ BrainCreateTasks
    \/ LoadRagChainQuery
    \/ RagSystemQuery

\* What the user, the clock and the hosted services do
EnvironmentStep ==
    \/ NewSession
    \/ AppSubmit
    \/ BrainSubmit
    \/ LoadRagChainCall
    \/ RagSystemCall
    \/ NextRequest
    \/ Tick
    \/ RestartProcess
    \/ RebuildWriteFaiss
    \/ RebuildWritePkl
    \/ AppGenReturns
    \/ AppGenRaises
    \/ AppMediaImageReturns
    \/ AppMediaImageRaises
    \/ AppMediaUploadReturns
    \/ AppMediaUploadRaises
    \/ AppMediaGenReturns
    \/ AppMediaGenRaises
    \/ RemoteProcess
    \/ BrainKickoffReturns
    \/ BrainKickoffRaises

Next == ProgramStep \/ EnvironmentStep

Spec == Init /\ [][Next]_vars

\* The interpreter runs the program's own steps; nothing makes a hosted
\* service answer
FairSpec == Spec /\ WF_vars(ProgramStep)

(***************************************************************************)
(* The outputs a finished request hands to the user.                       *)
(***************************************************************************)
Outputs == IF entry = "app" THEN {screen, report} ELSE {report}

\* text holds part as a contiguous run of tokens
ContainsText(text, part) ==
    \E i \in 0..(Len(text) - Len(part)) : SubSeq(text, i + 1, i + Len(part)) = part

(***************************************************************************)
(* The claims.                                                             *)
(***************************************************************************)
\* C1: when the text generation call raises, the fallback resolver's text
\* is the request's primary text (generate_fallback_diagnosis in app.py,
\* generate_fallback_report in brain.py), the finished report holds it, and
\* no exception leaves the pipeline entry point.
C1_FallbackOnGenerationFailure ==
    /\ ~escaped
    /\ pc # "Crashed"
    /\ gen_outcome = "failed" =>
          /\ Result # NoneText
          /\ Result = IF entry = "app"
                      THEN generate_fallback_diagnosis(breed, query, severity, context)
                      ELSE generate_fallback_report(breed, query, gen_error,
                              RagQuery(vector_store, embeddings, query, NoK, SearchRaises))
          /\ pc = "Done" => ContainsText(report, Result)

\* A request whose generation call raised has finished with its report
C1_Witness ==
    /\ pc = "Done"
    /\ gen_outcome = "failed"
    /\ gen_error \in ServiceErrors(openai_key)
    /\ report # NoneText

\* C2: two requests with the same breed, severity and query whose
\* generation both failed receive the same, non-empty fallback text,
\* whatever the error and whatever the state of the knowledge index.
C2_FallbackDeterministic ==
    (pc = "Done" /\ gen_outcome = "failed" /\ prev.gen_outcome = "failed")
    => (Result # NoneText /\ Result = prev.result)

\* C3: every output of a finished request holds the emergency-resources
\* block exactly when the severity is Severe or Critical.
C3_EmergencyBlockBySeverity ==
    (pc = "Done" /\ gen_outcome # "config") =>
        \A out \in Outputs :
            HasTag(out, "emergency_resources") <=> severity \in {"Severe", "Critical"}

\* C4: every output of a finished request is non-empty and holds the legal
\* disclaimer, whichever path produced the report.
C4_ReportHasDisclaimer ==
    pc = "Done" =>
        \A out \in Outputs : out # NoneText /\ HasTag(out, "disclaimer")

\* C5: compiling the report twice from the same primary text, breed, query
\* and media text gives the same report, also at another clock time or in
\* another process.
C5_CompileIdempotent ==
    (/\ pc = "Done"
     /\ gen_outcome \in (IF entry = "app" THEN {"generated", "failed", "unavailable"}
                         ELSE {"generated"})
     /\ prev.gen_outcome = gen_outcome
     /\ prev.diagnosis = diagnosis
     /\ prev.media_analysis = media_analysis)
    => report = prev.report

\* The step sequences the request state machine allows
AllowedRuns ==
    { << "Idle", "ContextRetrieved", "PromptAssembled" >> \o g \o << m, "Compiled", "Done" >> :
        g \in { << "Generated" >>, << "Failed", "FallbackUsed" >> },
        m \in { "MediaAnalyzed", "MediaSkipped" } }

IsPrefix(s, t) == Len(s) <= Len(t) /\ SubSeq(t, 1, Len(s)) = s

\* C6: the steps of a request are taken in the order Idle, ContextRetrieved,
\* PromptAssembled, Generated or Failed then FallbackUsed, MediaAnalyzed or
\* MediaSkipped, Compiled, Done, none skipped and none taken twice.
C6_StepOrder ==
    gen_outcome # "config" => \E run \in AllowedRuns : IsPrefix(steps, run)

\* C7: every request that is accepted reaches Done.
C7_RequestReachesDone ==
    (pc \in {"app_retrieve", "brain_init"}) ~> (pc = "Done")

\* C8: once analyze_media_with_ai has returned, no temporary file it
\* created exists.
C8_TempFilesRemoved ==
    pc \in {"app_compile", "Done", "Idle", "Rejected"} => tmp_files = {}

\* C9: after a failed media upload or analysis the request finishes with no
\* media analysis text: none stored, none on screen, none in the report.
C9_MediaFailureOmitted ==
    (pc = "Done" /\ media_outcome = "failed") =>
        /\ media_analysis = NoneText
        /\ ~HasTag(screen, "media_failure")
        /\ ~HasTag(report, "media_failure")

\* C10: the generation request that references an uploaded audio or video
\* file is issued only when the service reports the file as ready.
C10_GenerateAfterReady ==
    gen_issued_on \in {"none", "ACTIVE"}

\* C11: waiting for an uploaded audio or video file is bounded: while the
\* file does not reach the ready state, media analysis ends with a failure
\* and the request continues to the report.
C11_MediaWaitBounded ==
    (pc = "media_await_gen" /\ remote_file # "ACTIVE")
        ~> (pc \in {"app_compile", "Done"} \/ remote_file = "ACTIVE")

\* C12: knowledge lookup never raises to its caller: load_rag_chain returns
\* a knowledge string also when the index cannot be loaded or created.
C12_KnowledgeLookupNeverRaises ==
    entry = "rag" =>
        /\ pc # "RagRaised"
        /\ pc = "RagReturned" => context # NoneText

\* The knowledge lookup of the running request has returned
LookupRan ==
    IF entry = "rag" THEN pc = "RagReturned"
    ELSE Len(steps) >= 2 /\ steps[2] = "ContextRetrieved"

\* AvianRAGSystem.query answers in keyword mode
KeywordMode ==
    vector_store = NoIndex \/ embeddings = "None" \/ vector_store.model # embeddings

\* The keyword mappings in their fixed order: the symptom keys of app.py,
\* and the keywords of brain.py each with the entry of its group
AppKeys ==
    [i \in 1..Len(AVIAN_MEDICAL_KNOWLEDGE) |-> AVIAN_MEDICAL_KNOWLEDGE[i].name]

BrainKeywordMap ==
    << [key |-> K_emergency, value |-> EmergencyKnowledge],
       [key |-> K_critical, value |-> EmergencyKnowledge],
       [key |-> K_urgent, value |-> EmergencyKnowledge],
       [key |-> K_feather, value |-> FeatherKnowledge],
       [key |-> K_pluck, value |-> FeatherKnowledge],
       [key |-> K_breath, value |-> RespiratoryKnowledge],
       [key |-> K_sneeze, value |-> RespiratoryKnowledge],
       [key |-> K_cough, value |-> RespiratoryKnowledge],
       [key |-> K_eat, value |-> AppetiteKnowledge],
       [key |-> K_appetite, value |-> AppetiteKnowledge],
       [key |-> K_food, value |-> AppetiteKnowledge] >>

\* C13: keyword-mode lookup returns exactly one entry: the entry of the
\* first key, in mapping order, that is a substring of the lowered query,
\* and the generic default exactly when no key matches; for a query that
\* contains 'feather' (and no earlier key) it is a feather-specific entry.
C13_KeywordLookupFirstMatch ==
    (LookupRan /\ (entry = "app" \/ KeywordMode)) =>
        IF entry = "app"
        THEN LET hits == SelectSeq(AppKeys, LAMBDA k : InLowered(k, query))
             IN /\ Len(context) = 1
                /\ hits # <<>> => context = << hits[1] >>
                /\ InLowered(K_feather, query) => context[1] \in {K_plucking, K_loss}
        ELSE LET hits == SelectSeq(BrainKeywordMap,
                                   LAMBDA e : InLowered(e.key, query))
             IN /\ Len(context) = 1
                /\ context = IF hits = <<>> THEN GeneralKnowledge
                             ELSE hits[1].value
                /\ (InLowered(K_feather, query) /\ hits[1].key = K_feather)
                       => context = FeatherKnowledge

\* C14: for breed Cockatiel, severity Moderate and the query 'sneezing and
\* nasal discharge for 2 days', the keyword lookup returns the respiratory
\* entry and the fallback report names a respiratory concern.
C14_SneezingScenario ==
    (breed = "Cockatiel" /\ severity = "Moderate" /\ query = QSneezing) =>
        /\ (LookupRan /\ entry = "app") => context = << K_sneezing >>
        /\ (LookupRan /\ entry # "app" /\ KeywordMode)
               => context = RespiratoryKnowledge
        /\ (entry = "app" /\ gen_outcome \in {"failed", "unavailable"})
               => ContainsText(diagnosis, << Tok("issue", "Respiratory concerns") >>)
        /\ (entry = "brain" /\ gen_outcome = "failed" /\ KeywordMode)
               => ContainsText(report, RespiratoryKnowledge)

\* C15: with OPENAI_API_KEY missing or malformed, no call to the hosted text
\* generation service is ever in flight.
C15_NoCallWithoutCredential ==
    openai_key # "valid" => pc \notin {"app_await_gen", "brain_await"}

\* C16: without a credential the page and crew_ai_response do not crash:
\* no script run ends in an exception, a request made without the text key
\* ends with a report, and one made without the vision key ends with a
\* report that holds no media analysis.
C16_CredentialAbsenceNoCrash ==
    (entry \in {"app", "brain"} /\ (openai_key = "absent" \/ ~google_key)) =>
        /\ pc \notin {"ScriptError", "Crashed"}
        /\ ~escaped
        /\ (pc = "Done" /\ openai_key = "absent")
               => (report # NoneText /\ gen_outcome \in {"unavailable", "config"})
        /\ (pc = "Done" /\ entry = "app" /\ ~google_key)
               => media_analysis = NoneText

\* C17: a request whose query has fewer than 10 characters after trimming
\* is rejected by every entry point: no knowledge lookup, no generation
\* call, no media analysis and no report happen for it.
C17_ShortQueryRejected ==
    (/\ entry \in {"app", "brain"}
     /\ Len(Strip(query)) < MinQueryLen
     /\ gen_outcome # "config") =>
        /\ context = NoneText
        /\ prompt = NoneText
        /\ gen_outcome = "none"
        /\ media_outcome = "none"
        /\ report = NoneText

\* The media kinds by extension
ListedKind(ext) ==
    CASE ext \in {".jpg", ".jpeg", ".png"} -> "image"
      [] ext \in {".mp4", ".mov", ".avi"} -> "video"
      [] ext \in {".mp3", ".wav", ".m4a"} -> "audio"
      [] OTHER -> "none"

\* C18: a file with any of the listed extensions, in any letter case, is
\* analysed as the kind its extension names: with the vision model
\* available, the finished request has made an analysis attempt of that
\* kind and has not skipped the file.
C18_MediaKindByExtension ==
    (entry = "app" /\ pc = "Done" /\ picked # "None" /\ google_key) =>
        /\ MediaKind(ExtLower(picked)) = ListedKind(ExtLower(picked))
        /\ media_outcome \in {"ok", "failed"}

\* C19: the on-disk vector index is never written while serving: every
\* step that changes the index directory is a step of the rebuild script;
\* constructing AvianRAGSystem, load_rag_chain, query and the diagnostic
\* pipeline leave it unchanged.
C19_IndexReadOnlyWhileServing ==
    [][disk_index' # disk_index => rebuild_pc' # rebuild_pc]_vars

\* C20: rebuilding is serialized against reads: no load of the index
\* returns a store read while a write of the directory was under way.
C20_RebuildSerialized == index_read # "partial"

\* C21: the fallback resolver performs no I/O: producing the fallback report
\* invokes neither the vector index nor the embedding model, so none of the
\* request's similarity searches is made by generate_fallback_report.
C21_FallbackNoIO ==
    \A i \in 1..Len(search_calls) :
        search_calls[i].caller # "generate_fallback_report"

\* The k the caller of AvianRAGSystem.query asked for
AskedK == IF query_k = NoK THEN SIMILARITY_SEARCH_K ELSE query_k[1]

\* C22: vector-mode lookup: every similarity search asks for exactly 3
\* chunks when k is not given and for k chunks when k is given, and the
\* query returns the texts of the chunks the search returned, joined in the
\* search's rank order.
C22_VectorLookupTopK ==
    /\ \A i \in 1..Len(search_calls) : search_calls[i].k = AskedK
    /\ (pc \in {"RagReturned", "QueryReturned"} /\ search_calls # <<>>
           /\ ~SearchRaises) =>
          context = Tokens("doc", similarity_search(vector_store, query, AskedK))

\* C23: an assembled generation prompt represents breed, severity, query
\* and the retrieved context, and is a function of those four only: the
\* same four inputs give the same prompt at any time.
C23_PromptFromFourFields ==
    prompt # NoneText =>
        /\ HasTag(prompt, "breed")
        /\ HasTag(prompt, "severity")
        /\ HasTag(prompt, "query")
        /\ IF entry = "app"
           THEN /\ context # <<>> => HasTag(prompt, "context")
                /\ \A t \in 0..MaxClock :
                      prompt = create_diagnostic_prompt(breed, query, severity,
                                                        context, t)
           ELSE /\ ContainsText(prompt, context)
                /\ prompt = create_tasks(breed, query, context)

\* The places where app.py reads the availability flags: the status panel,
\* generate_ai_diagnosis and analyze_media_with_ai
ReadsFlags == pc \in {"status", "app_generate", "app_media"}

\* C24: in every session both availability flags are defined in that
\* session's state before they are read, also in a session started after
\* a first session ran initialize_models and its result was cached.
C24_FlagsDefinedBeforeRead ==
    ReadsFlags =>
        {"openai_available", "gemini_available"} \subseteq DOMAIN session_state

\* C25: whenever a similarity search is run against the index, the model
\* that embeds the query is the model the index was built with.
C25_SearchModelIsIndexModel ==
    \A i \in 1..Len(search_calls) :
        search_calls[i].model = search_calls[i].index_model

\* A query of the AvianRAGSystem has been answered
QueryAnswered == pc = "QueryReturned" \/ (entry # "app" /\ LookupRan)

\* C26: a non-empty vector_store implies a loaded embeddings model; when
\* the embeddings could not be loaded, no index is loaded, the constructor
\* creates none on disk, no similarity search is run and every query is
\* answered by get_fallback_knowledge.
C26_StoreImpliesEmbeddings ==
    /\ [](/\ vector_store # NoIndex => embeddings # "None"
          /\ embeddings = "None" =>
                /\ vector_store = NoIndex
                /\ index_read = "none"
                /\ search_calls = <<>>
                /\ QueryAnswered => context = get_fallback_knowledge(query))
    /\ [][(pc = "rag_load" /\ pc' # "rag_load" /\ embeddings = "None")
             => disk_index' = disk_index]_vars

\* A query was answered by a system whose embeddings could not be loaded,
\* with an index directory on disk
C26_Witness ==
    /\ QueryAnswered
    /\ embeddings = "None"
    /\ disk_index # NoIndex
    /\ context = get_fallback_knowledge(query)
====
